---- MODULE Spec2Model ----
(***************************************************************************)
(* Chatbot message handling of the PropFlow AI services:                   *)
(*   ChatbotService (rate limiting on a Redis counter, dispatch to the     *)
(*   agent), PropertyManagementAgent.process_message, the POST /chat       *)
(*   route and the websocket route.                                        *)
(* The Redis counter store is modelled by its three commands GET, INCR and *)
(* EXPIRE; time is the remaining time-to-live of each key.                 *)
(***************************************************************************)
EXTENDS Integers, Sequences, FiniteSets, TLC

VARIABLES redis_client, store, ws_open, resp, calls,
          db_pool, messages, request, tasks, agent, analytics, lifespan

vars == <<redis_client, store, ws_open, resp, calls, db_pool, messages, request,
          tasks, agent, analytics, lifespan>>

\* the agent's memory, the analytics routes and the lifespan of the process
side_vars == <<agent, analytics, lifespan>>

(***************************************************************************)
(* Program constants                                                       *)
(***************************************************************************)
\* intelligent_agent.py:288  int(count or 0) > 30
RateLimit == 30
\* intelligent_agent.py:300  expire(key, 60)
Window == 60
\* routes/chatbot.py:60  suggestions[:3]
MaxSuggestions == 3
\* intelligent_agent.py:30  ConversationBufferWindowMemory(k=10)
MemoryWindow == 10

(***************************************************************************)
(* Bounds of the model                                                     *)
(***************************************************************************)
\* time advances in steps of TickStep units
TickStep == 30
\* the counter of a key is followed up to MaxCount
MaxCount == 32
\* the suggested-actions lists fed to the response assembly have at most
\* MaxProvided items
MaxProvided == 4
\* the counters of the users other than the first are followed up to MaxOther
MaxOther == 2
\* the memory of the agent is followed over MaxTurns turns
MaxTurns == 4

Users == {"u1"}
\* the users that have a key in the counter store
AllUsers == {"u1", "u2"}
None == "None"
Absent == "<absent>"
ConvIds == {None, "c1"}
NoneInt == -1
NoTTL == -1

ThrottleMsg == "You're sending messages too quickly. Please wait a moment before trying again."
FallbackMsg == "I apologize, but I encountered an error processing your request. Please try again or contact support if the issue persists."
ExcText == "str(e)"

\* what agent_executor.arun does for one call: it returns a text or raises
DelegateOutcomes ==
    { [ok |-> TRUE, text |-> "answer"], [ok |-> FALSE, text |-> ExcText] }

\* which of the store calls of one request raise: GET, INCR and EXPIRE of
\* the counter store, the pool's acquire() under the load and under the save
\* of the conversation
AllFaults ==
    [get : BOOLEAN, incr : BOOLEAN, expire : BOOLEAN, load : BOOLEAN, save : BOOLEAN]
\* the counter-store calls alone
Faults == { f \in AllFaults : ~f.load /\ ~f.save }
\* GET, and the database calls
TurnFaults == { f \in AllFaults : ~f.incr /\ ~f.expire }
NoFault ==
    [get |-> FALSE, incr |-> FALSE, expire |-> FALSE, load |-> FALSE, save |-> FALSE]

\* the message of a request: a text, the empty text, or no message field
TextMessage == "hello"
Messages == {TextMessage, ""}

(***************************************************************************)
(* The counter store (Redis): one key rate_limit:<user_id> per user        *)
(***************************************************************************)
NoKey == [exists |-> FALSE, count |-> 0, ttl |-> NoTTL]

\* GET key: the value, or None for a missing key
redis_get(st, u) == IF st[u].exists THEN st[u].count ELSE NoneInt

\* INCR key: a missing key is created with value 1 and no time-to-live;
\* an existing key keeps its time-to-live
redis_incr(st, u) ==
    IF st[u].exists
    THEN [st EXCEPT ![u].count = @ + 1]
    ELSE [st EXCEPT ![u] = [exists |-> TRUE, count |-> 1, ttl |-> NoTTL]]

\* EXPIRE key seconds: sets the time-to-live of an existing key
redis_expire(st, u, seconds) ==
    IF st[u].exists THEN [st EXCEPT ![u].ttl = seconds] ELSE st

\* the passing of d time units: every key with a time-to-live loses d of it
\* and is removed when none is left
redis_elapse(st, d) ==
    [u \in DOMAIN st |->
        IF st[u].exists /\ st[u].ttl # NoTTL
        THEN IF st[u].ttl - d <= 0 THEN NoKey ELSE [st[u] EXCEPT !.ttl = @ - d]
        ELSE st[u]]

\* int(count or 0)
IntOrZero(count) == IF count = NoneInt THEN 0 ELSE count

(***************************************************************************)
(* ChatbotService._is_rate_limited / _update_rate_limit                    *)
(* Each returns a value or raises; `raised` tells which.                   *)
(***************************************************************************)
\* _is_rate_limited without its try/except: a raising GET gets out
is_rate_limited_unguarded(client, st, u, f) ==
    IF client = None THEN [raised |-> FALSE, value |-> FALSE]
    ELSE IF f.get THEN [raised |-> TRUE, value |-> FALSE]
    ELSE [raised |-> FALSE, value |-> IntOrZero(redis_get(st, u)) > RateLimit]

\* _is_rate_limited: without a client, or when GET raises, the answer is
\* False; the except clause lets nothing out
is_rate_limited(client, st, u, f) ==
    IF client = None THEN [raised |-> FALSE, value |-> FALSE]
    ELSE IF f.get THEN [raised |-> FALSE, value |-> FALSE]
    ELSE [raised |-> FALSE, value |-> IntOrZero(redis_get(st, u)) > RateLimit]

\* _update_rate_limit with one key for all users
update_rate_limit_shared_key(client, st, u, f) ==
    IF client = None \/ f.incr THEN [raised |-> FALSE, store |-> st]
    ELSE [raised |-> FALSE,
          store |-> [v \in DOMAIN st |->
                        redis_expire(redis_incr(st, v), v, Window)[v]]]

\* _update_rate_limit: INCR, then EXPIRE 60; a raising call ends the update
\* where it stands and is logged
update_rate_limit(client, st, u, f) ==
    IF client = None THEN [raised |-> FALSE, store |-> st]
    ELSE IF f.incr THEN [raised |-> FALSE, store |-> st]
    ELSE IF f.expire THEN [raised |-> FALSE, store |-> redis_incr(st, u)]
    ELSE [raised |-> FALSE, store |-> redis_expire(redis_incr(st, u), u, Window)]

(***************************************************************************)
(* PropertyManagementAgent                                                 *)
(***************************************************************************)
\* Python truth value of an Optional[str]
Truthy(s) == s # None /\ s # ""

NoCalls ==
    [load |-> 0, arun |-> 0, save |-> 0, suggest |-> 0, provided |-> << >>,
     input |-> Absent, load_logged |-> FALSE, save_logged |-> FALSE,
     frames |-> 0, closed |-> FALSE]

\* utils/database.py get_db_session: RuntimeError without a pool, else the
\* pool's acquire(), which may raise
get_db_session(acquire_raises) ==
    IF db_pool = None THEN [raised |-> TRUE, exc |-> "Database pool not initialized"]
    ELSE IF acquire_raises THEN [raised |-> TRUE, exc |-> "acquire failed"]
    ELSE [raised |-> FALSE, exc |-> ""]

\* _load_conversation_history without its try/except
load_conversation_history_unguarded(conv, f) ==
    [raised |-> get_db_session(f.load).raised, exc |-> get_db_session(f.load).exc,
     logged |-> get_db_session(f.load).raised]

\* _load_conversation_history: the session is opened and nothing is read;
\* an exception is logged and goes no further
load_conversation_history(conv, f) ==
    [raised |-> FALSE, exc |-> "", logged |-> get_db_session(f.load).raised]

\* _save_conversation without its try/except
save_conversation_unguarded(msgs, u, conv, turn, f) ==
    [raised |-> get_db_session(f.save).raised, exc |-> get_db_session(f.save).exc,
     logged |-> get_db_session(f.save).raised, messages |-> msgs]

\* _save_conversation: the session is opened and nothing is written (the
\* body is `pass`); an exception is logged and goes no further
save_conversation(msgs, u, conv, turn, f) ==
    [raised |-> FALSE, exc |-> "", logged |-> get_db_session(f.save).raised,
     messages |-> msgs]

ErrorResult(exc) ==
    [response |-> FallbackMsg, conversation_id |-> Absent,
     status |-> "error", error |-> exc]

\* the dict process_message returns; a key the dict lacks is Absent
process_message(u, conv, d, f) ==
    LET ld == load_conversation_history(conv, f)
        sv == save_conversation(messages, u, conv, d.text, f)
    IN  IF Truthy(conv) /\ ld.raised THEN ErrorResult(ld.exc)
        ELSE IF ~d.ok THEN ErrorResult(d.text)
        ELSE IF sv.raised THEN ErrorResult(sv.exc)
        ELSE [response |-> d.text, conversation_id |-> conv,
              status |-> "success", error |-> Absent]

\* process_message running the delegate a second time when it raised
process_calls_retry(conv, d, f) ==
    [NoCalls EXCEPT !.load = IF Truthy(conv) THEN 1 ELSE 0,
                    !.arun = IF d.ok THEN 1 ELSE 2,
                    !.save = IF d.ok THEN 1 ELSE 0]

\* the collaborators process_message calls: the history is loaded when a
\* conversation id is given, the delegate is run, the turn is saved when
\* the delegate returned
process_calls(conv, d, f) ==
    LET ld == load_conversation_history(conv, f)
        sv == save_conversation(messages, "", conv, d.text, f)
    IN  IF Truthy(conv) /\ ld.raised
        THEN [NoCalls EXCEPT !.load = 1, !.load_logged = ld.logged]
        ELSE [NoCalls EXCEPT !.load = IF Truthy(conv) THEN 1 ELSE 0,
                             !.load_logged = Truthy(conv) /\ ld.logged,
                             !.arun = 1,
                             !.save = IF d.ok THEN 1 ELSE 0,
                             !.save_logged = d.ok /\ sv.logged]

\* the messages table after process_message
process_messages(u, conv, d, f) ==
    IF d.ok /\ ~(Truthy(conv) /\ load_conversation_history(conv, f).raised)
    THEN save_conversation(messages, u, conv, d.text, f).messages
    ELSE messages

\* ChatbotService.get_conversation_history: the list it returns is empty
get_conversation_history(u, conv) == << >>

\* get_suggested_actions: the list it builds is empty
get_suggested_actions(u) == << >>

(***************************************************************************)
(* ChatbotService.send_message                                             *)
(***************************************************************************)
RateLimitedResult ==
    [response |-> ThrottleMsg, conversation_id |-> Absent,
     status |-> "rate_limited", error |-> Absent]

NoResult ==
    [response |-> "", conversation_id |-> Absent, status |-> "none", error |-> Absent]

\* send_message updating the counter before the rate-limit return
service_send_message_counts_rejection(client, st, u, conv, d, f) ==
    LET chk == is_rate_limited(client, st, u, f)
        upd == update_rate_limit(client, st, u, f)
    IN  IF chk.value
        THEN [raised |-> FALSE, result |-> RateLimitedResult, store |-> upd.store,
              calls |-> NoCalls, messages |-> messages]
        ELSE [raised |-> FALSE, result |-> process_message(u, conv, d, f),
              store |-> upd.store, calls |-> process_calls(conv, d, f),
              messages |-> process_messages(u, conv, d, f)]

\* send_message processing the message before the rate-limit return
service_send_message_process_first(client, st, u, conv, d, f) ==
    LET chk == is_rate_limited(client, st, u, f)
        upd == update_rate_limit(client, st, u, f)
    IN  IF chk.value
        THEN [raised |-> FALSE, result |-> RateLimitedResult, store |-> st,
              calls |-> process_calls(conv, d, f), messages |-> messages]
        ELSE [raised |-> FALSE, result |-> process_message(u, conv, d, f),
              store |-> upd.store, calls |-> process_calls(conv, d, f),
              messages |-> process_messages(u, conv, d, f)]

\* send_message updating the counter only after a turn that succeeded
service_send_message_update_on_success(client, st, u, conv, d, f) ==
    LET chk == is_rate_limited(client, st, u, f)
        upd == update_rate_limit(client, st, u, f)
        res == process_message(u, conv, d, f)
    IN  IF chk.value
        THEN [raised |-> FALSE, result |-> RateLimitedResult, store |-> st,
              calls |-> NoCalls, messages |-> messages]
        ELSE [raised |-> FALSE, result |-> res,
              store |-> IF res.status = "success" THEN upd.store ELSE st,
              calls |-> process_calls(conv, d, f),
              messages |-> process_messages(u, conv, d, f)]

service_send_message(client, st, u, conv, d, f) ==
    LET chk == is_rate_limited(client, st, u, f)
        upd == update_rate_limit(client, st, u, f)
    IN  IF chk.raised
        THEN [raised |-> TRUE, result |-> NoResult, store |-> st, calls |-> NoCalls,
              messages |-> messages]
        ELSE IF chk.value
        THEN [raised |-> FALSE, result |-> RateLimitedResult, store |-> st,
              calls |-> NoCalls, messages |-> messages]
        ELSE [raised |-> upd.raised,
              result |-> IF upd.raised THEN NoResult ELSE process_message(u, conv, d, f),
              store |-> upd.store,
              calls |-> process_calls(conv, d, f),
              messages |-> process_messages(u, conv, d, f)]

(***************************************************************************)
(* routes/chatbot.py                                                       *)
(***************************************************************************)
\* dict.get(key): None for a key the dict lacks
DictGet(v) == IF v = Absent THEN None ELSE v

NullList == [null |-> TRUE, items |-> << >>]

\* the titles without the [:3] slice
suggestion_titles_unsliced(suggestions) ==
    IF suggestions = << >> THEN NullList
    ELSE [null |-> FALSE,
          items |-> [i \in 1..Len(suggestions) |-> suggestions[i].title]]

\* [s.get("title") for s in suggestions[:3]] if suggestions else None
suggestion_titles(suggestions) ==
    IF suggestions = << >> THEN NullList
    ELSE [null |-> FALSE,
          items |-> [i \in 1..(IF Len(suggestions) < MaxSuggestions
                               THEN Len(suggestions) ELSE MaxSuggestions)
                        |-> suggestions[i].title]]

\* the ChatResponse built by POST /chat from the service's result
chat_response(u, conv, result, suggestions) ==
    [path |-> "http", transport |-> "200", user |-> u, conv_in |-> conv,
     response |-> result.response,
     conversation_id |-> DictGet(result.conversation_id),
     status |-> result.status,
     suggestions |-> IF Truthy(conv) THEN NullList
                     ELSE suggestion_titles(suggestions),
     error |-> Absent]

\* POST /chat when the handler's try block raises: HTTPException(500)
chat_failure(u, conv) ==
    [path |-> "http", transport |-> "500", user |-> u, conv_in |-> conv,
     response |-> "Failed to process message", conversation_id |-> None,
     status |-> "none", suggestions |-> NullList, error |-> Absent]

\* the frame the websocket route sends: json.dumps(result)
ws_frame(u, conv, result) ==
    [path |-> "ws", transport |-> "frame", user |-> u, conv_in |-> conv,
     response |-> result.response,
     conversation_id |-> result.conversation_id,
     status |-> result.status,
     suggestions |-> NullList,
     error |-> result.error]

\* the websocket route when a turn raises: close(code=1000), no frame
ws_failure(u, conv) ==
    [path |-> "ws", transport |-> "closed", user |-> u, conv_in |-> conv,
     response |-> "", conversation_id |-> None,
     status |-> "none", suggestions |-> NullList, error |-> Absent]

\* POST /chat with a body ChatMessage rejects (no message field): the
\* handler is not entered
chat_invalid(u) ==
    [path |-> "http", transport |-> "422", user |-> u, conv_in |-> None,
     response |-> "", conversation_id |-> None,
     status |-> "none", suggestions |-> NullList, error |-> Absent]

NoResp ==
    [path |-> "none", transport |-> "none", user |-> None, conv_in |-> None,
     response |-> "", conversation_id |-> None,
     status |-> "none", suggestions |-> NullList, error |-> Absent]

(***************************************************************************)
(* State machine                                                           *)
(***************************************************************************)
EmptyStore == [u \in AllUsers |-> NoKey]

\* the body of the last request, as the route received it
NoRequest == [message |-> Absent, json_object |-> FALSE]

\* the requests in flight: each is one task running ChatbotService.send_message
Tasks == {"t1", "t2"}

\* agent_executor.arun may also never return
NeverReturns == [ok |-> FALSE, text |-> "<never returns>"]
NoDelegate == [ok |-> FALSE, text |-> Absent]

\* a task before its request arrives
IdleTask ==
    [pc |-> "idle", user |-> None, conv |-> None, message |-> Absent,
     d |-> NoDelegate, result |-> NoResult, trace |-> << >>, during |-> {}]

\* the memory of the agent before any turn, and what the last call of
\* agent_executor.arun was given as chat_history, for which user and session
NoAgent == [memory |-> << >>, history |-> << >>, user |-> None, conv |-> None]

\* no analytics request was made yet
NoAnalytics ==
    [endpoint |-> None, user |-> None, property_ids |-> << >>, date_range |-> None,
     status_code |-> 0, detail |-> None, computed |-> 0]

Init ==
    /\ agent = NoAgent
    /\ analytics = NoAnalytics
    /\ lifespan = "serving"
    /\ tasks = [t \in Tasks |-> IdleTask]
    /\ redis_client \in {"client", None}
    /\ store = EmptyStore
    /\ ws_open = [u \in Users |-> FALSE]
    /\ resp = NoResp
    /\ calls = NoCalls
    /\ db_pool = None
    /\ messages = [c \in ConvIds |-> << >>]
    /\ request = NoRequest

InBounds(st) == \A u \in AllUsers : st[u].count <= MaxCount

\* the text agent_executor.arun is given (enhanced_input without a context)
\* when it is called
delegate_input(c, msg) == IF c.arun > 0 THEN msg ELSE Absent

\* message_data.get("message", "")
ws_message(msg) == IF msg = Absent THEN "" ELSE msg

\* POST /chat with a body whose message is msg, the suggested-actions
\* provider returning `provided`
chat_turn(u, conv, msg, d, f, provided) ==
    LET r == service_send_message(redis_client, store, u, conv, d, f) IN
    /\ InBounds(r.store)
    /\ store' = r.store
    /\ resp' = IF r.raised THEN chat_failure(u, conv)
               ELSE chat_response(u, conv, r.result, provided)
    /\ calls' = LET c == [r.calls EXCEPT !.input = delegate_input(r.calls, msg)]
                IN  IF r.raised \/ Truthy(conv) THEN c
                    ELSE [c EXCEPT !.suggest = 1, !.provided = provided]
    /\ messages' = r.messages
    /\ request' = [message |-> msg, json_object |-> TRUE]
    /\ UNCHANGED <<side_vars, tasks, redis_client, ws_open, db_pool>>

\* POST /chat with a text message
post_chat(u, conv, d, f, provided) ==
    chat_turn(u, conv, TextMessage, d, f, provided)

HttpChat ==
    \E u \in Users, conv \in ConvIds, d \in DelegateOutcomes, f \in Faults :
        post_chat(u, conv, d, f, get_suggested_actions(u))

\* websocket_chat: accept
WsConnect ==
    \E u \in Users :
        /\ ~ws_open[u]
        /\ ws_open' = [ws_open EXCEPT ![u] = TRUE]
        /\ UNCHANGED <<side_vars, tasks, redis_client, store, resp, calls, db_pool, messages, request>>

\* websocket_chat closing the connection after a turn that ended in error
ws_message_turn_close_on_error(u, conv, msg, d, f) ==
    LET r == service_send_message(redis_client, store, u, conv, d, f)
        err == r.result.status = "error"
    IN
    /\ ws_open[u]
    /\ InBounds(r.store)
    /\ store' = r.store
    /\ resp' = ws_frame(u, conv, r.result)
    /\ calls' = [r.calls EXCEPT !.input = delegate_input(r.calls, ws_message(msg)),
                                !.frames = 1, !.closed = err]
    /\ ws_open' = IF err THEN [ws_open EXCEPT ![u] = FALSE] ELSE ws_open
    /\ messages' = r.messages
    /\ request' = [message |-> msg, json_object |-> TRUE]
    /\ UNCHANGED <<side_vars, tasks, redis_client, db_pool>>

\* websocket_chat: one turn of the loop on a frame holding a JSON object
\* whose message is msg (Absent: the object has no message)
ws_message_turn(u, conv, msg, d, f) ==
    LET r == service_send_message(redis_client, store, u, conv, d, f) IN
    /\ ws_open[u]
    /\ InBounds(r.store)
    /\ store' = r.store
    /\ resp' = IF r.raised THEN ws_failure(u, conv) ELSE ws_frame(u, conv, r.result)
    /\ calls' = [r.calls EXCEPT !.input = delegate_input(r.calls, ws_message(msg)),
                                !.frames = IF r.raised THEN 0 ELSE 1,
                                !.closed = r.raised]
    /\ ws_open' = IF r.raised THEN [ws_open EXCEPT ![u] = FALSE] ELSE ws_open
    /\ messages' = r.messages
    /\ request' = [message |-> msg, json_object |-> TRUE]
    /\ UNCHANGED <<side_vars, tasks, redis_client, db_pool>>

\* websocket_chat: one turn on a frame with a text message
ws_turn(u, conv, d, f) == ws_message_turn(u, conv, TextMessage, d, f)

WsFrame ==
    \E u \in Users, conv \in ConvIds, d \in DelegateOutcomes, f \in Faults :
        ws_turn(u, conv, d, f)

\* websocket_chat: a frame that json.loads rejects, or that holds no JSON
\* object: the turn raises, the connection is closed and no frame is sent
WsBadFrame ==
    \E u \in Users :
        /\ ws_open[u]
        /\ ws_open' = [ws_open EXCEPT ![u] = FALSE]
        /\ resp' = ws_failure(u, None)
        /\ calls' = [NoCalls EXCEPT !.closed = TRUE]
        /\ request' = NoRequest
        /\ UNCHANGED <<side_vars, tasks, redis_client, store, db_pool, messages>>

\* websocket_chat: the client disconnects (WebSocketDisconnect)
WsDisconnect ==
    \E u \in Users :
        /\ ws_open[u]
        /\ ws_open' = [ws_open EXCEPT ![u] = FALSE]
        /\ UNCHANGED <<side_vars, tasks, redis_client, store, resp, calls, db_pool, messages, request>>

\* TickStep time units pass
Tick ==
    /\ store' = redis_elapse(store, TickStep)
    /\ UNCHANGED <<side_vars, tasks, redis_client, ws_open, resp, calls, db_pool, messages, request>>

Next == HttpChat \/ WsConnect \/ WsFrame \/ WsBadFrame \/ WsDisconnect \/ Tick

Spec == Init /\ [][Next]_vars

\* the requests of user u, over either route
Request(u) ==
    \E conv \in ConvIds, d \in DelegateOutcomes, f \in Faults :
        \/ post_chat(u, conv, d, f, get_suggested_actions(u))
        \/ ws_turn(u, conv, d, f)

\* the requests of user u during which no counter-store call raises
CleanRequest(u) ==
    \E conv \in ConvIds, d \in DelegateOutcomes :
        \/ post_chat(u, conv, d, NoFault, get_suggested_actions(u))
        \/ ws_turn(u, conv, d, NoFault)

TypeOK ==
    /\ redis_client \in {"client", None}
    /\ \A u \in Users :
        /\ store[u].count \in 0..MaxCount
        /\ store[u].ttl \in {NoTTL} \cup 1..Window
    /\ resp.status \in {"none", "success", "error", "rate_limited"}
    /\ resp.transport \in {"none", "200", "422", "frame", "closed"}

(***************************************************************************)
(* The turn in full: any message, the database pool and its failures       *)
(***************************************************************************)
\* utils/database.py init_database: create_pool raises, or the pool is
\* assigned and the test query raises, or both succeed
init_database(outcome) ==
    IF outcome = "create_fails" THEN [raised |-> TRUE, pool |-> db_pool]
    ELSE IF outcome = "test_fails" THEN [raised |-> TRUE, pool |-> "pool"]
    ELSE [raised |-> FALSE, pool |-> "pool"]

\* utils/database.py close_database
close_database == IF db_pool # None THEN None ELSE db_pool

InitOutcomes == {"ok", "create_fails", "test_fails"}

\* a call of init_database; what it raises goes to its caller
init_database_call(outcome) ==
    /\ db_pool' = init_database(outcome).pool
    /\ UNCHANGED <<side_vars, tasks, redis_client, store, ws_open, resp, calls,
                   messages, request>>

InitDatabase == \E outcome \in InitOutcomes : init_database_call(outcome)

CloseDatabase ==
    /\ db_pool' = close_database
    /\ UNCHANGED <<side_vars, tasks, redis_client, store, ws_open, resp, calls,
                   messages, request>>

HttpChatAny ==
    \E u \in Users, conv \in ConvIds, msg \in Messages, d \in DelegateOutcomes,
       f \in TurnFaults :
        chat_turn(u, conv, msg, d, f, get_suggested_actions(u))

\* POST /chat with a body that has no message
HttpInvalid ==
    \E u \in Users :
        /\ resp' = chat_invalid(u)
        /\ calls' = NoCalls
        /\ request' = [message |-> Absent, json_object |-> TRUE]
        /\ UNCHANGED <<side_vars, tasks, redis_client, store, ws_open, db_pool, messages>>

WsFrameAny ==
    \E u \in Users, conv \in ConvIds, msg \in Messages \cup {Absent},
       d \in DelegateOutcomes, f \in TurnFaults :
        ws_message_turn(u, conv, msg, d, f)

NextTurn ==
    \/ HttpChatAny \/ HttpInvalid
    \/ WsConnect \/ WsFrameAny \/ WsBadFrame \/ WsDisconnect
    \/ InitDatabase \/ CloseDatabase

SpecTurn == Init /\ [][NextTurn]_vars

(***************************************************************************)
(* The response assembly of POST /chat over the lists a suggested-actions  *)
(* provider may return: items with a title, at most MaxProvided of them    *)
(***************************************************************************)
\* the lists of n items titled "1".."n", in ascending and in descending order
ProviderLists ==
    { [i \in 1..n |-> [title |-> ToString(i)]] : n \in 0..MaxProvided }
    \cup { [i \in 1..n |-> [title |-> ToString(n + 1 - i)]] : n \in 0..MaxProvided }

HttpChatProvided ==
    \E u \in Users, conv \in ConvIds, d \in DelegateOutcomes, f \in Faults,
       provided \in ProviderLists :
        post_chat(u, conv, d, f, provided)

NextProvided == HttpChatProvided \/ Tick

SpecProvided == Init /\ [][NextProvided]_vars

(***************************************************************************)
(* Requests in flight together: every request is a task that runs          *)
(* ChatbotService.send_message and gives way at each await                 *)
(***************************************************************************)
\* the tasks whose request is being served
InFlight == { t \in Tasks : tasks[t].pc \notin {"idle", "responded", "rejected"} }

\* what _save_conversation is given for the turn of task t
turn(t) == [user_message |-> tasks[t].message, ai_response |-> tasks[t].d.text]

\* a request arrives: the route handler calls chatbot_service.send_message
TaskStart(t) ==
    /\ tasks[t].pc \in {"idle", "responded", "rejected"}
    /\ \E u \in Users, conv \in ConvIds :
        tasks' = [tasks EXCEPT ![t] =
                    [IdleTask EXCEPT !.pc = "received", !.user = u, !.conv = conv,
                                     !.message = t, !.trace = <<"RECEIVED">>,
                                     !.during = InFlight \ {t}]]
    /\ UNCHANGED <<side_vars, redis_client, store, ws_open, resp, calls, db_pool, messages,
                   request>>

\* send_message: await self._is_rate_limited(user_id)
TaskAdmit(t) ==
    /\ tasks[t].pc = "received"
    /\ tasks' = [tasks EXCEPT ![t] =
                    IF is_rate_limited(redis_client, store, tasks[t].user, NoFault).value
                    THEN [@ EXCEPT !.pc = "rejected", !.result = RateLimitedResult,
                                   !.trace = Append(@, "REJECTED")]
                    ELSE [@ EXCEPT !.pc = "admitted",
                                   !.trace = Append(@, "ADMITTED")]]
    /\ UNCHANGED <<side_vars, redis_client, store, ws_open, resp, calls, db_pool, messages,
                   request>>

\* process_message: if conversation_id: await self._load_conversation_history
TaskResolve(t) ==
    /\ tasks[t].pc = "admitted"
    /\ ~(Truthy(tasks[t].conv) /\ load_conversation_history(tasks[t].conv, NoFault).raised)
    /\ tasks' = [tasks EXCEPT ![t].pc = "resolved",
                              ![t].trace = Append(@, "SESSION_RESOLVED")]
    /\ UNCHANGED <<side_vars, redis_client, store, ws_open, resp, calls, db_pool, messages,
                   request>>

\* process_message: await self.agent_executor.arun(...) is entered
TaskInvoke(t) ==
    /\ tasks[t].pc = "resolved"
    /\ \E d \in DelegateOutcomes \cup {NeverReturns} :
        tasks' = [tasks EXCEPT ![t].pc = "invoked", ![t].d = d,
                               ![t].trace = Append(@, "DELEGATE_INVOKED")]
    /\ UNCHANGED <<side_vars, redis_client, store, ws_open, resp, calls, db_pool, messages,
                   request>>

\* agent_executor.arun returns a text, or raises into the except branch of
\* process_message
DelegateReturn(t) ==
    /\ tasks[t].pc = "invoked"
    /\ tasks[t].d \in DelegateOutcomes
    /\ tasks' = [tasks EXCEPT ![t] =
                    IF tasks[t].d.ok
                    THEN [@ EXCEPT !.pc = "succeeded",
                                   !.trace = Append(@, "SUCCEEDED")]
                    ELSE [@ EXCEPT !.pc = "failed",
                                   !.result = ErrorResult(tasks[t].d.text),
                                   !.trace = Append(@, "FAILED")]]
    /\ UNCHANGED <<side_vars, redis_client, store, ws_open, resp, calls, db_pool, messages,
                   request>>

\* process_message going on to its return without _save_conversation
task_persist_skipped(t) ==
    /\ tasks[t].pc = "succeeded"
    /\ tasks' = [tasks EXCEPT ![t].pc = "persisted",
                              ![t].result = process_message(tasks[t].user, tasks[t].conv,
                                                            tasks[t].d, NoFault)]
    /\ UNCHANGED <<side_vars, redis_client, store, ws_open, resp, calls, db_pool, messages,
                   request>>

\* process_message: await self._save_conversation(...), then the success dict
task_persist(t) ==
    /\ tasks[t].pc = "succeeded"
    /\ messages' = save_conversation(messages, tasks[t].user, tasks[t].conv, turn(t),
                                     NoFault).messages
    /\ tasks' = [tasks EXCEPT ![t].pc = "persisted",
                              ![t].result = process_message(tasks[t].user, tasks[t].conv,
                                                            tasks[t].d, NoFault),
                              ![t].trace = Append(@, "PERSISTED")]
    /\ UNCHANGED <<side_vars, redis_client, store, ws_open, resp, calls, db_pool, request>>

TaskPersist(t) == task_persist(t)

\* send_message: await self._update_rate_limit(user_id)
TaskUpdate(t) ==
    /\ tasks[t].pc \in {"persisted", "failed"}
    /\ LET upd == update_rate_limit(redis_client, store, tasks[t].user, NoFault) IN
        /\ InBounds(upd.store)
        /\ store' = upd.store
    /\ tasks' = [tasks EXCEPT ![t].pc = "updated"]
    /\ UNCHANGED <<side_vars, redis_client, ws_open, resp, calls, db_pool, messages, request>>

\* send_message returns and the route handler sends the response
TaskRespond(t) ==
    /\ tasks[t].pc = "updated"
    /\ tasks' = [tasks EXCEPT ![t].pc = "responded",
                              ![t].trace = Append(@, "RESPONDED")]
    /\ UNCHANGED <<side_vars, redis_client, store, ws_open, resp, calls, db_pool, messages,
                   request>>

\* the steps the code of a request in flight can take
TaskProgram(t) ==
    \/ TaskAdmit(t) \/ TaskResolve(t) \/ TaskInvoke(t) \/ DelegateReturn(t)
    \/ TaskPersist(t) \/ TaskUpdate(t) \/ TaskRespond(t)

NextConc ==
    \E t \in Tasks :
        \/ TaskStart(t) \/ TaskAdmit(t) \/ TaskResolve(t) \/ TaskInvoke(t)
        \/ DelegateReturn(t) \/ TaskPersist(t) \/ TaskUpdate(t) \/ TaskRespond(t)

SpecConc == Init /\ [][NextConc]_vars

(***************************************************************************)
(* POST /chat from several users                                           *)
(***************************************************************************)
\* no counter-store call raises; the counters of the users outside Users
\* are followed up to MaxOther
HttpChatUsers ==
    \E u \in AllUsers, conv \in ConvIds, d \in DelegateOutcomes :
        /\ post_chat(u, conv, d, NoFault, get_suggested_actions(u))
        /\ \A v \in AllUsers \ Users : store'[v].count <= MaxOther

NextUsers == HttpChatUsers

SpecUsers == Init /\ [][NextUsers]_vars

(***************************************************************************)
(* The memory of the agent: PropertyManagementAgent builds one             *)
(* ConversationBufferWindowMemory and hands it to its AgentExecutor, and   *)
(* chatbot_service holds the one agent of the process                      *)
(***************************************************************************)
\* the last k turns of the buffer: the chat_history of the prompt
load_memory_variables(memory) ==
    IF Len(memory) <= MemoryWindow THEN memory
    ELSE SubSeq(memory, Len(memory) - MemoryWindow + 1, Len(memory))

\* the executor saves the turn into its memory after a run that returned
save_context(memory, u, conv, d) ==
    IF d.ok THEN Append(memory, [user |-> u, conv |-> conv]) ELSE memory

\* process_message for user u: agent_executor.arun runs over the memory
agent_turn(u, conv, d) ==
    /\ Len(agent.memory) < MaxTurns
    /\ agent' = [memory |-> save_context(agent.memory, u, conv, d),
                 history |-> load_memory_variables(agent.memory),
                 user |-> u, conv |-> conv]
    /\ UNCHANGED <<analytics, lifespan, tasks, redis_client, store, ws_open, resp,
                   calls, db_pool, messages, request>>

AgentTurn ==
    \E u \in AllUsers, conv \in ConvIds, d \in DelegateOutcomes : agent_turn(u, conv, d)

NextMemory == AgentTurn

SpecMemory == Init /\ [][NextMemory]_vars

(***************************************************************************)
(* The analytics routes that validate the access to a property             *)
(***************************************************************************)
AnalyticsEndpoints == {"property", "tenant", "financial", "maintenance", "custom"}

\* the property ids a request may name: three of the user's and a foreign one
PropertyIds == {"property_1", "property_2", "property_3", "property_9"}

DateRanges == {"30d", "6m"}

\* _get_user_properties
get_user_properties(u) == <<"property_1", "property_2", "property_3">>

Elements(seq) == { seq[i] : i \in 1..Len(seq) }

\* _validate_property_access: raises HTTPException(403) for a property that
\* is not among the user's
validate_property_access(property_id, u) ==
    [raised |-> property_id \notin Elements(get_user_properties(u)),
     status_code |-> 403, detail |-> "Access denied to specified property"]

\* the properties the endpoint validates: the one named (none when no
\* property is named); for custom, the ones named or else the user's
validated_properties(endpoint, property_ids, u) ==
    IF endpoint = "custom" /\ property_ids = << >> THEN get_user_properties(u)
    ELSE property_ids

AccessDenied(endpoint, property_ids, u) ==
    \E p \in Elements(validated_properties(endpoint, property_ids, u)) :
        validate_property_access(p, u).raised

\* the handler of an analytics endpoint: validation and computation run in
\* one try block whose `except Exception` answers 500; HTTPException is an
\* Exception
analytics_endpoint(endpoint, u, property_ids, date_range, compute_raises) ==
    IF AccessDenied(endpoint, property_ids, u) \/ compute_raises
    THEN [endpoint |-> endpoint, user |-> u, property_ids |-> property_ids,
          date_range |-> date_range, status_code |-> 500,
          detail |-> "Failed to retrieve " \o endpoint \o " analytics",
          computed |-> 0]
    ELSE [endpoint |-> endpoint, user |-> u, property_ids |-> property_ids,
          date_range |-> date_range, status_code |-> 200, detail |-> None,
          computed |-> 1]

\* the property ids of a request: none or one; custom may name two
RequestProperties(endpoint) ==
    {<< >>} \cup { <<p>> : p \in PropertyIds }
    \cup (IF endpoint = "custom"
          THEN { <<p, q>> : p \in PropertyIds, q \in PropertyIds } ELSE {})

AnalyticsRequest ==
    \E endpoint \in AnalyticsEndpoints, u \in AllUsers, date_range \in DateRanges,
       compute_raises \in BOOLEAN :
        \E property_ids \in RequestProperties(endpoint) :
            /\ analytics' = analytics_endpoint(endpoint, u, property_ids, date_range,
                                               compute_raises)
            /\ UNCHANGED <<agent, lifespan, tasks, redis_client, store, ws_open, resp,
                           calls, db_pool, messages, request>>

NextAnalytics == AnalyticsRequest

SpecAnalytics == Init /\ [][NextAnalytics]_vars

(***************************************************************************)
(* main.py lifespan: startup, serving, shutdown                            *)
(***************************************************************************)
\* the process before lifespan() is entered
InitLife ==
    /\ agent = NoAgent
    /\ analytics = NoAnalytics
    /\ lifespan = "down"
    /\ tasks = [t \in Tasks |-> IdleTask]
    /\ redis_client \in {"client", None}
    /\ store = EmptyStore
    /\ ws_open = [u \in Users |-> FALSE]
    /\ resp = NoResp
    /\ calls = NoCalls
    /\ db_pool = None
    /\ messages = [c \in ConvIds |-> << >>]
    /\ request = NoRequest

\* startup: init_database, then init_redis; either raising ends the startup
Startup ==
    /\ lifespan = "down"
    /\ \E outcome \in InitOutcomes, redis_raises \in BOOLEAN :
        /\ db_pool' = init_database(outcome).pool
        /\ lifespan' = IF init_database(outcome).raised THEN "database_failed"
                       ELSE IF redis_raises THEN "redis_failed"
                       ELSE "serving"
    /\ UNCHANGED <<agent, analytics, tasks, redis_client, store, ws_open, resp, calls,
                   messages, request>>

\* a chat request while the application serves
Serve ==
    /\ lifespan = "serving"
    /\ \E u \in Users, conv \in ConvIds, d \in DelegateOutcomes :
        post_chat(u, conv, d, NoFault, get_suggested_actions(u))

\* shutdown: close_redis, then close_database, in one try block whose except
\* clause logs the error
shutdown(redis_raises) ==
    IF redis_raises THEN db_pool ELSE close_database

Shutdown ==
    /\ lifespan = "serving"
    /\ \E redis_raises \in BOOLEAN : db_pool' = shutdown(redis_raises)
    /\ lifespan' = "stopped"
    /\ UNCHANGED <<agent, analytics, tasks, redis_client, store, ws_open, resp, calls,
                   messages, request>>

NextLife == Startup \/ Serve \/ Shutdown

SpecLife == InitLife /\ [][NextLife]_vars

(***************************************************************************)
(* Claims                                                                  *)
(***************************************************************************)
Admitted(r) == r.status \in {"success", "error"}

\* C1: with the counter store available, a user's messages are admitted
\* while fewer than 30 were admitted in the window and the next one (the
\* 31st) is rejected with status rate_limited.
C1_ThirtyAdmittedThenRejected ==
    [][\A u \in Users :
         (redis_client # None /\ CleanRequest(u))
            => (resp'.status = "rate_limited" <=> store[u].count >= RateLimit)]_vars

\* C2: the record of a rejected user is gone at most one window (60 units)
\* after the rejection, so that the user's next message is admitted: a
\* rejected user never holds a record that does not expire.
C2_RejectedUserRecovers ==
    resp.status = "rate_limited"
        => (store[resp.user].exists => store[resp.user].ttl \in 1..Window)

\* C3: a rejected request leaves the user's rate-limit record (count and
\* time-to-live) unchanged.
C3_RejectionLeavesRecord ==
    [][\A u \in Users :
         (Request(u) /\ resp'.status = "rate_limited") => store' = store]_vars

C3_Witness ==
    /\ resp.status = "rate_limited"
    /\ store[resp.user].count > RateLimit
    /\ store[resp.user].ttl \in 1..(Window - 1)

\* C4: fixed window: an admitted message sets the expiry to 60 only when it
\* creates the record; on an existing record it adds 1 to count and leaves
\* the expiry as it was.
C4_FixedWindow ==
    [][\A u \in Users :
         (redis_client # None /\ CleanRequest(u) /\ Admitted(resp'))
            => IF store[u].exists
               THEN /\ store'[u].count = store[u].count + 1
                    /\ store'[u].ttl = store[u].ttl
               ELSE store'[u] = [exists |-> TRUE, count |-> 1, ttl |-> Window]]_vars

\* C5: admission fails open: without a counter store, or when GET raises,
\* the request is admitted and processed (the delegate runs once), and no
\* raising counter-store call (GET, INCR, EXPIRE) gets out of send_message:
\* the route answers normally.
C5_FailOpen ==
    [][\A u \in Users, conv \in ConvIds, d \in DelegateOutcomes, f \in Faults :
         (\/ post_chat(u, conv, d, f, get_suggested_actions(u))
          \/ ws_turn(u, conv, d, f))
            => /\ resp'.transport \in {"200", "frame"}
               /\ (redis_client = None \/ f.get)
                    => (Admitted(resp') /\ calls'.arun = 1)
               /\ Admitted(resp')
                    => resp'.response = (IF d.ok THEN d.text ELSE FallbackMsg)]_vars

\* a request admitted over the limit, which only a failed GET allows
C5_Witness ==
    /\ Admitted(resp)
    /\ redis_client # None
    /\ store[resp.user].count >= RateLimit + 2

\* C6: a rejected request is answered with status rate_limited and the fixed
\* throttling message; the delegate is not invoked for it and nothing is
\* loaded or saved.
C6_RejectionSkipsDelegate ==
    resp.status = "rate_limited"
        => /\ resp.response = ThrottleMsg
           /\ calls.arun = 0
           /\ calls.save = 0
           /\ calls.load = 0

C6_Witness ==
    /\ resp.status = "rate_limited"
    /\ resp.conv_in # None
    /\ resp.response = ThrottleMsg

\* C7: a POST /chat request whose conversation_id is null gets a response
\* with a non-null conversation_id.
C7_ConversationIdMinted ==
    (resp.path = "http" /\ resp.transport = "200" /\ resp.conv_in = None)
        => resp.conversation_id # None

\* C8: a POST /chat request that carries a conversation_id gets a response
\* with that conversation_id and no suggestions, whatever the status.
C8_ConversationIdEchoed ==
    (resp.path = "http" /\ resp.transport = "200" /\ resp.conv_in # None)
        => /\ resp.conversation_id = resp.conv_in
           /\ resp.suggestions.null

\* C9: suggestions are attached only when the request had no
\* conversation_id, and are then the titles of the first 3 items of the
\* provider's list, in its order (all of them when it has fewer than 3).
C9_SuggestionsFirstThree ==
    /\ ~resp.suggestions.null => (resp.path = "http" /\ resp.conv_in = None)
    /\ (resp.path = "http" /\ resp.transport = "200" /\ resp.conv_in = None)
        => LET p == calls.provided
               s == resp.suggestions
           IN  IF Len(p) = 0 THEN s.null
               ELSE /\ ~s.null
                    /\ Len(s.items) = (IF Len(p) >= 3 THEN 3 ELSE Len(p))
                    /\ \A i \in 1..Len(s.items) : s.items[i] = p[i].title

C9_Witness ==
    /\ resp.path = "http"
    /\ resp.conv_in = None
    /\ Len(calls.provided) > MaxSuggestions
    /\ resp.suggestions.items = <<"4", "3", "2">>

\* C10: when the delegate raises, the caller gets status error with the
\* fixed fallback text and nothing returned to it (POST /chat body or
\* websocket frame) holds the exception text.
C10_NoExceptionText ==
    resp.status = "error"
        => /\ resp.response = FallbackMsg
           /\ resp.error = Absent
Answered == resp.transport \in {"200", "frame"}

\* C11: the delegate is invoked exactly once for every admitted request and
\* not at all for a rejected one, on the HTTP and on the websocket path.
C11_DelegateOncePerAdmitted ==
    Answered => calls.arun = (IF Admitted(resp) THEN 1 ELSE 0)

C11_Witness ==
    /\ resp.path = "ws"
    /\ resp.status = "error"
    /\ calls.arun = 1
    /\ calls.load_logged

\* C12: after a successfully processed and saved turn on conversation c,
\* the messages of c hold the turn and get_conversation_history(c) returns
\* it.
C12_TurnInHistory ==
    (Answered /\ resp.status = "success" /\ Truthy(resp.conv_in)
        /\ ~calls.save_logged)
        => /\ Len(messages[resp.conv_in]) >= 1
           /\ \E i \in DOMAIN get_conversation_history(resp.user, resp.conv_in) :
                get_conversation_history(resp.user, resp.conv_in)[i]
                    = [message |-> request.message, response |-> resp.response]

\* C14: a failure of the save of the turn (the pool's acquire raising, or no
\* pool) is logged and the caller still gets status success with the
\* delegate's output.
C14_SaveFailureKeepsResponse ==
    (Answered /\ calls.save = 1 /\ calls.save_logged)
        => /\ resp.status = "success"
           /\ resp.response = "answer"

C14_Witness ==
    /\ resp.path = "http"
    /\ db_pool # None
    /\ calls.save_logged
    /\ resp.status = "success"

\* C15: a request whose conversation cannot be loaded (the load fails; no
\* id is known to the store) is not an error: the delegate is invoked and
\* the response is the delegate's outcome.
C15_LoadMissProceeds ==
    (Answered /\ Truthy(resp.conv_in) /\ resp.status # "rate_limited")
        => /\ calls.load = 1
           /\ calls.arun = 1
           /\ resp.response \in {"answer", FallbackMsg}
           /\ (resp.status = "error" => resp.error \in {ExcText, Absent})

C15_Witness ==
    /\ Truthy(resp.conv_in)
    /\ calls.load_logged
    /\ resp.status = "success"
    /\ calls.arun = 1

C19_EveryFrameAnswered ==
    resp.path = "ws" => (calls.frames = 1 /\ ~calls.closed)

\* C19 amended: every inbound frame that holds a JSON object is answered by
\* exactly one frame and leaves the connection open, whatever the status of
\* its turn; a frame that holds no JSON object gets no frame and closes the
\* connection.
C19_ObjectFrameAnswered ==
    resp.path = "ws"
        => IF request.json_object
           THEN calls.frames = 1 /\ ~calls.closed /\ resp.transport = "frame"
           ELSE calls.frames = 0 /\ calls.closed /\ resp.transport = "closed"

C19_Witness ==
    /\ resp.path = "ws"
    /\ resp.status = "rate_limited"
    /\ calls.frames = 1
    /\ ~calls.closed
    /\ ws_open[resp.user]

\* C20: a request whose message is missing or empty is rejected as invalid
\* and reaches neither admission nor the delegate.
C20_EmptyMessageRejected ==
    (resp.path \in {"http", "ws"} /\ request.json_object
        /\ request.message \in {"", Absent})
        => /\ calls.arun = 0
           /\ resp.status = "none"

\* the turns of a conversation that were stored
Stored(conv) == { messages[conv][i] : i \in 1..Len(messages[conv]) }

\* tasks whose requests overlapped in time
Concurrent(t1, t2) == t2 \in tasks[t1].during \/ t1 \in tasks[t2].during

\* C13: two concurrent turns on the same conversation_id that both succeed
\* are both present in the message list of the conversation afterwards
C13_BothTurnsStored ==
    \A t1, t2 \in Tasks :
        ( /\ t1 # t2
          /\ Concurrent(t1, t2)
          /\ tasks[t1].pc = "responded" /\ tasks[t2].pc = "responded"
          /\ tasks[t1].result.status = "success"
          /\ tasks[t2].result.status = "success"
          /\ Truthy(tasks[t1].conv) /\ tasks[t1].conv = tasks[t2].conv )
        => {turn(t1), turn(t2)} \subseteq Stored(tasks[t1].conv)

\* C17: a request whose delegate never returns is not left waiting on it:
\* its code still has a step to take towards RESPONDED
C17_HungDelegateBounded ==
    \A t \in Tasks :
        (tasks[t].pc = "invoked" /\ tasks[t].d = NeverReturns)
        => ENABLED TaskProgram(t)

ReachedDelegate(u) ==
    { t \in Tasks : tasks[t].user = u
                    /\ tasks[t].pc \in {"invoked", "succeeded", "failed", "persisted"} }

\* C22: with requests of one user in flight together, the number of requests
\* admitted in a window (those counted by the record and those that reached
\* the delegate and are not counted yet) never exceeds the threshold
C22_AdmittedWithinThreshold ==
    \A u \in Users :
        redis_client # None
        => store[u].count + Cardinality(ReachedDelegate(u)) <= RateLimit

\* C23: every existing rate-limit record carries a time-to-live
C23_RecordHasExpiry ==
    \A u \in Users : store[u].exists => store[u].ttl # NoTTL

\* C24 (as stated): every admitted request adds exactly 1 to the counter of
\* its user, whatever the delegate does, and a rejected request adds 0
C24_AdmittedCountsOne ==
    [][\A u \in Users, conv \in ConvIds, d \in DelegateOutcomes, f \in Faults :
         (\/ post_chat(u, conv, d, f, get_suggested_actions(u))
          \/ ws_turn(u, conv, d, f))
            => store'[u].count
                 = store[u].count + (IF Admitted(resp') THEN 1 ELSE 0)]_vars

\* C24 (amended): an admitted request adds exactly 1 to the counter of its
\* user, whatever the delegate does, when there is a counter store and its
\* INCR does not raise; it adds 0 otherwise, and a rejected request adds 0
C24_AdmittedCountsOneWhenStored ==
    [][\A u \in Users, conv \in ConvIds, d \in DelegateOutcomes, f \in Faults :
         (\/ post_chat(u, conv, d, f, get_suggested_actions(u))
          \/ ws_turn(u, conv, d, f))
            => store'[u].count
                 = store[u].count
                   + (IF Admitted(resp') /\ redis_client # None /\ ~f.incr
                      THEN 1 ELSE 0)]_vars

\* a turn that ended in status error and was counted
C24_Witness ==
    /\ resp.status = "error"
    /\ calls.arun = 1
    /\ store[resp.user].count = 1
    /\ store[resp.user].ttl = Window

\* C26: a POST /chat request rejected by admission calls no collaborator but
\* the counter store: the suggested-actions provider is not queried and the
\* response has no suggestions
C26_RejectionSkipsSuggestions ==
    (resp.path = "http" /\ resp.status = "rate_limited")
        => /\ calls.suggest = 0
           /\ calls.arun = 0 /\ calls.load = 0 /\ calls.save = 0
           /\ resp.suggestions = NullList

\* C25: a request of user a leaves the record of every other user b as it
\* was, and its admission does not depend on the record of b
C25_PerUserRecords ==
    [][\A a \in AllUsers, conv \in ConvIds, d \in DelegateOutcomes :
         post_chat(a, conv, d, NoFault, get_suggested_actions(a))
            => \A b \in AllUsers \ {a} :
                /\ store'[b] = store[b]
                /\ \A rec \in {NoKey, store[a]} :
                     is_rate_limited(redis_client, [store EXCEPT ![b] = rec], a, NoFault)
                       = is_rate_limited(redis_client, store, a, NoFault)]_vars

\* u2 is admitted while u1 is over the limit
C25_Witness ==
    /\ redis_client # None
    /\ resp.user = "u2" /\ Admitted(resp)
    /\ store["u2"].count = 1 /\ store["u2"].ttl = Window
    /\ store["u1"].count > RateLimit

\* C21: the chat_history the delegate is given for a turn of a user holds
\* turns of that user only
C21_HistoryOfOwnUser ==
    \A i \in 1..Len(agent.history) : agent.history[i].user = agent.user

\* C27: a request that names a property the user has no access to is
\* answered 403 'Access denied to specified property' and computes nothing
C27_DeniedAnswered403 ==
    (analytics.endpoint # None
     /\ AccessDenied(analytics.endpoint, analytics.property_ids, analytics.user))
        => /\ analytics.status_code = 403
           /\ analytics.detail = "Access denied to specified property"
           /\ analytics.computed = 0

\* C30: after the shutdown the database pool is closed
C30_ShutdownClosesPool ==
    lifespan = "stopped" => db_pool = None

\* get_db_session yields a connection (the pool's acquire not raising)
SessionYields == ~get_db_session(FALSE).raised

\* C28: get_db_session yields after an init_database that succeeded, raises
\* after a close_database and after an init_database that raised in the
\* uninitialised state, and a close_database in the closed state changes
\* nothing
C28_PoolLifecycle ==
    [][/\ \A outcome \in InitOutcomes :
            init_database_call(outcome)
                => /\ ~init_database(outcome).raised => SessionYields'
                   /\ (init_database(outcome).raised /\ ~SessionYields)
                        => ~SessionYields'
       /\ CloseDatabase
            => /\ ~SessionYields'
               /\ ~SessionYields => db_pool' = db_pool]_vars

\* C29: after a startup whose init_database raised, get_db_pool() is None
\* and get_db_session raises
C29_FailedInitLeavesNoPool ==
    lifespan = "database_failed" => (db_pool = None /\ ~SessionYields)

====
